---- MODULE Spec2Model ----
(***************************************************************************)
(* Model of PerplexityResearchTool                                         *)
(* (modules/tool-perplexity-search/amplifier_module_tool_perplexity_search *)
(* /__init__.py): the lazily created SDK client, close(), and execute()    *)
(* with its auto / research / chat dispatch and the one-shot fallback.     *)
(*                                                                         *)
(* The tool runs on an asyncio event loop: the code between two awaits is  *)
(* one atomic step, and the only awaits are the upstream call              *)
(* (responses.create / chat.completions.create) and client.close().        *)
(***************************************************************************)
EXTENDS Integers, Sequences, FiniteSets, TLC

(***************************************************************************)
(* Python values.  An attribute or a dict entry is absent, None or a       *)
(* value; payloads of different Python types live in different fields, so  *)
(* two encodings are never compared across types.                          *)
(***************************************************************************)
Absent == [k |-> "absent"]
PyNone == [k |-> "none"]
PyStr(s) == [k |-> "str", s |-> s]
PyInt(n) == [k |-> "int", n |-> n]
PyList(xs) == [k |-> "list", xs |-> xs]
PyObj(o) == [k |-> "obj", o |-> o]

\* dict.get(key) / getattr(obj, name, default): the default replaces an
\* absent entry only, never a None one.
GetAttr(field, default) == IF field.k = "absent" THEN default ELSE field

\* bool(value)
Truthy(x) ==
    CASE x.k = "absent" -> FALSE
      [] x.k = "none" -> FALSE
      [] x.k = "str" -> x.s # ""
      [] x.k = "int" -> x.n # 0
      [] x.k = "list" -> x.xs # <<>>
      [] OTHER -> TRUE

(***************************************************************************)
(* Strings: str.lower(), the `in` substring test, str.join.                *)
(***************************************************************************)
LowerChar(c) ==
    CASE c = "A" -> "a" [] c = "B" -> "b" [] c = "C" -> "c" [] c = "D" -> "d"
      [] c = "E" -> "e" [] c = "F" -> "f" [] c = "G" -> "g" [] c = "H" -> "h"
      [] c = "I" -> "i" [] c = "J" -> "j" [] c = "K" -> "k" [] c = "L" -> "l"
      [] c = "M" -> "m" [] c = "N" -> "n" [] c = "O" -> "o" [] c = "P" -> "p"
      [] c = "Q" -> "q" [] c = "R" -> "r" [] c = "S" -> "s" [] c = "T" -> "t"
      [] c = "U" -> "u" [] c = "V" -> "v" [] c = "W" -> "w" [] c = "X" -> "x"
      [] c = "Y" -> "y" [] c = "Z" -> "z" [] OTHER -> c

RECURSIVE Lower(_)
Lower(s) ==
    IF Len(s) = 0 THEN ""
    ELSE LowerChar(SubSeq(s, 1, 1)) \o Lower(SubSeq(s, 2, Len(s)))

\* needle in haystack
Contains(haystack, needle) ==
    \E i \in 1..(Len(haystack) - Len(needle) + 1) :
        SubSeq(haystack, i, i + Len(needle) - 1) = needle

StartsWith(s, prefix) ==
    Len(prefix) <= Len(s) /\ SubSeq(s, 1, Len(prefix)) = prefix

\* any(entry in s for entry in entries)
ContainsAny(s, entries) == \E e \in entries : Contains(s, e)

RECURSIVE Join(_, _)
Join(sep, parts) ==
    IF parts = <<>> THEN ""
    ELSE IF Len(parts) = 1 THEN parts[1]
    ELSE parts[1] \o sep \o Join(sep, Tail(parts))

(***************************************************************************)
(* _categorize_url: the rule tables and the check order.                   *)
(***************************************************************************)
AcademicDomains ==
    {"arxiv.org", "doi.org", "pubmed", "springer.com", "nature.com",
     "sciencedirect", ".edu/", "acm.org", "ieee.org", "scholar.google",
     "ncbi.nlm.nih", "plos.org", "frontiersin.org", "biorxiv.org",
     "medrxiv.org", "researchgate.net", "semanticscholar.org"}

DocsPatterns ==
    {"docs.", "/docs/", "documentation", "readme", "github.com", "gitlab.com",
     "api.", "developer.", "devdocs"}

NewsDomains ==
    {"techcrunch", "wired.com", "theverge", "arstechnica", "bbc.", "cnn.",
     "reuters.", "nytimes", "wsj.com", "bloomberg.", "/news/", "/blog/",
     "medium.com", "substack.com", "venturebeat", "thenextweb"}

\* Variants: the news rules are checked before the docs rules; the url is
\* matched as it is, without lower-casing it.
_categorize_url_NewsBeforeDocs(url) ==
    LET url_lower == Lower(url) IN
    IF ContainsAny(url_lower, AcademicDomains) THEN "academic"
    ELSE IF ContainsAny(url_lower, NewsDomains) THEN "news"
    ELSE IF ContainsAny(url_lower, DocsPatterns) THEN "docs"
    ELSE "other"

_categorize_url_CaseSensitive(url) ==
    IF ContainsAny(url, AcademicDomains) THEN "academic"
    ELSE IF ContainsAny(url, DocsPatterns) THEN "docs"
    ELSE IF ContainsAny(url, NewsDomains) THEN "news"
    ELSE "other"

_categorize_url(url) ==
    LET url_lower == Lower(url) IN
    IF ContainsAny(url_lower, AcademicDomains) THEN "academic"
    ELSE IF ContainsAny(url_lower, DocsPatterns) THEN "docs"
    ELSE IF ContainsAny(url_lower, NewsDomains) THEN "news"
    ELSE "other"

(***************************************************************************)
(* Exceptions.  The SDK's classes form a hierarchy and an except clause    *)
(* catches its class and every subclass of it.                             *)
(***************************************************************************)
PyExc(cls, message, status_code) ==
    [cls |-> cls, message |-> message, status_code |-> status_code]

Bases(cls) ==
    CASE cls = "RateLimitError" -> {"RateLimitError", "APIStatusError", "APIError", "Exception"}
      [] cls = "BadRequestError" -> {"BadRequestError", "APIStatusError", "APIError", "Exception"}
      [] cls = "APIStatusError" -> {"APIStatusError", "APIError", "Exception"}
      [] cls = "APITimeoutError" -> {"APITimeoutError", "APIConnectionError", "APIError", "Exception"}
      [] cls = "APIConnectionError" -> {"APIConnectionError", "APIError", "Exception"}
      [] OTHER -> {cls, "Exception"}

IsInstance(e, cls) == cls \in Bases(e.cls)

\* What iterating None raises.
NotIterable == PyExc("TypeError", "'NoneType' object is not iterable", 0)

(***************************************************************************)
(* _parse_response: the walk over response.output.  The accumulator holds  *)
(* text_parts, citations, seen_urls, and the exception that ended the walk *)
(* (exc = <<>> while none was raised).                                     *)
(***************************************************************************)
EmptyUsage == [present |-> FALSE]

\* title if title and title != url else "Untitled"
DisplayTitle(title, url) ==
    IF Truthy(title) /\ title.s # url.s THEN title.s ELSE "Untitled"

\* Variant: a later candidate with a url already seen replaces the title.
AddCitation_LastTitleWins(acc, url, title) ==
    IF Truthy(url) /\ url.s \notin acc.seen_urls
    THEN [acc EXCEPT !.seen_urls = @ \cup {url.s},
                     !.citations = Append(@, [url |-> url.s,
                                              title |-> DisplayTitle(title, url),
                                              category |-> _categorize_url(url.s)])]
    ELSE IF Truthy(url)
    THEN [acc EXCEPT !.citations =
              [i \in 1..Len(@) |->
                   IF @[i].url = url.s
                   THEN [@[i] EXCEPT !.title = DisplayTitle(title, url)]
                   ELSE @[i]]]
    ELSE acc

\* if url and url not in seen_urls: seen_urls.add(url); citations.append(...)
AddCitation(acc, url, title) ==
    IF Truthy(url) /\ url.s \notin acc.seen_urls
    THEN [acc EXCEPT !.seen_urls = @ \cup {url.s},
                     !.citations = Append(@, [url |-> url.s,
                                              title |-> DisplayTitle(title, url),
                                              category |-> _categorize_url(url.s)])]
    ELSE acc

\* `a or b`
PyOr(a, b) == IF Truthy(a) THEN a ELSE b

RECURSIVE WalkAnnotations(_, _)
WalkAnnotations(acc, annotations) ==
    IF annotations = <<>> THEN acc
    ELSE LET annotation == Head(annotations)
             url == GetAttr(annotation.url, PyNone)
             title == GetAttr(annotation.title, url)
         IN WalkAnnotations(AddCitation(acc, url, title), Tail(annotations))

RECURSIVE WalkContent(_, _)
WalkContent(acc, content_items) ==
    IF content_items = <<>> \/ acc.exc # <<>> THEN acc
    ELSE LET content_item == Head(content_items)
             content_type == GetAttr(content_item.type, PyNone)
         IN IF content_type.k = "str" /\ content_type.s \in {"output_text", "text"}
            THEN LET text == GetAttr(content_item.text, PyStr(""))
                     acc1 == IF Truthy(text)
                             THEN [acc EXCEPT !.text_parts = Append(@, text.s)]
                             ELSE acc
                     annotations == PyOr(GetAttr(content_item.annotations, PyNone),
                                         PyList(<<>>))
                 IN WalkContent(WalkAnnotations(acc1, annotations.xs),
                                Tail(content_items))
            ELSE WalkContent(acc, Tail(content_items))

RECURSIVE WalkSearchResults(_, _)
WalkSearchResults(acc, results) ==
    IF results = <<>> THEN acc
    ELSE LET search_result == Head(results)
             url == GetAttr(search_result.url, PyNone)
             title == PyOr(GetAttr(search_result.title, PyNone),
                           GetAttr(search_result.name, url))
         IN WalkSearchResults(AddCitation(acc, url, title), Tail(results))

RECURSIVE WalkFetchResults(_, _)
WalkFetchResults(acc, results) ==
    IF results = <<>> THEN acc
    ELSE LET fetch_result == Head(results)
             url == GetAttr(fetch_result.url, PyNone)
             title == PyOr(GetAttr(fetch_result.title, PyNone), url)
         IN WalkFetchResults(AddCitation(acc, url, title), Tail(results))

\* `for x in value`: a list is walked, None raises TypeError.
Raise(acc, e) == [acc EXCEPT !.exc = <<e>>]

RECURSIVE WalkOutput(_, _)
WalkOutput(acc, output) ==
    IF output = <<>> \/ acc.exc # <<>> THEN acc
    ELSE LET output_item == Head(output)
             item_type == GetAttr(output_item.type, PyNone)
             kind == IF item_type.k = "str" THEN item_type.s ELSE ""
             content_items == GetAttr(output_item.content, PyList(<<>>))
             results == GetAttr(output_item.results, PyList(<<>>))
             acc1 ==
                 CASE kind = "message" ->
                          IF content_items.k = "list"
                          THEN WalkContent(acc, content_items.xs)
                          ELSE Raise(acc, NotIterable)
                   [] kind = "search_results" ->
                          IF results.k = "list"
                          THEN WalkSearchResults(acc, results.xs)
                          ELSE Raise(acc, NotIterable)
                   [] kind = "fetch_url_results" ->
                          IF results.k = "list"
                          THEN WalkFetchResults(acc, results.xs)
                          ELSE Raise(acc, NotIterable)
                   [] OTHER -> acc
         IN WalkOutput(acc1, Tail(output))

\* Variant: a missing count is reported as -1.
OrZero_Unset(x) == IF Truthy(x) THEN x.n ELSE -1

\* x or 0, for a token count
OrZero(x) == IF Truthy(x) THEN x.n ELSE 0

\* Variant: a response that carries an error is not walked.
_parse_response_StopsAtError(response) ==
    LET error == IF Truthy(response.error)
                 THEN PyObj([code |-> response.error.o.code,
                             message |-> response.error.o.message])
                 ELSE Absent
        start == [text_parts |-> <<>>, citations |-> <<>>, seen_urls |-> {},
                  exc |-> <<>>]
        acc == IF Truthy(response.error) THEN start
               ELSE IF response.output.k = "list"
               THEN WalkOutput(start, response.output.xs)
               ELSE Raise(start, NotIterable)
    IN [exc |-> acc.exc,
        result |-> [content |-> Join("\n", acc.text_parts),
                    citations |-> acc.citations,
                    usage |-> EmptyUsage,
                    model |-> response.model,
                    status |-> response.status,
                    error |-> error]]

\* Returns [exc, result]: exc = <<e>> when the walk raised e.
_parse_response(response) ==
    LET error == IF Truthy(response.error)
                 THEN PyObj([code |-> response.error.o.code,
                             message |-> response.error.o.message])
                 ELSE Absent
        start == [text_parts |-> <<>>, citations |-> <<>>, seen_urls |-> {},
                  exc |-> <<>>]
        acc == IF response.output.k = "list"
               THEN WalkOutput(start, response.output.xs)
               ELSE Raise(start, NotIterable)
        usage == IF Truthy(response.usage)
                 THEN [present |-> TRUE,
                       input_tokens |-> OrZero(response.usage.o.input_tokens),
                       output_tokens |-> OrZero(response.usage.o.output_tokens),
                       total_tokens |-> PyInt(OrZero(response.usage.o.input_tokens)
                                              + OrZero(response.usage.o.output_tokens))]
                 ELSE EmptyUsage
    IN [exc |-> acc.exc,
        result |-> [content |-> Join("\n", acc.text_parts),
                    citations |-> acc.citations,
                    usage |-> usage,
                    model |-> response.model,
                    status |-> response.status,
                    error |-> error]]

(***************************************************************************)
(* _format_structured_output                                               *)
(***************************************************************************)
CategoryOrder == <<"academic", "news", "docs", "other">>

CategoryName(category) ==
    CASE category = "academic" -> "### Academic Sources"
      [] category = "news" -> "### News & Industry"
      [] category = "docs" -> "### Documentation"
      [] OTHER -> "### Other Sources"

\* Variant: a citation is numbered by its position in its category group.
ByCategory_NumberedInGroup(citations, category) ==
    LET group == SelectSeq(citations, LAMBDA c : c.category = category)
    IN [i \in 1..Len(group) |-> [i |-> i, citation |-> group[i]]]

\* by_category[category]: the (i, citation) pairs of one category, in
\* sequence order, i counted from 1 over the whole citation list.
ByCategory(citations, category) ==
    SelectSeq([i \in 1..Len(citations) |-> [i |-> i, citation |-> citations[i]]],
              LAMBDA p : p.citation.category = category)

RECURSIVE CitationLines(_)
CitationLines(pairs) ==
    IF pairs = <<>> THEN <<>>
    ELSE LET p == Head(pairs) IN
         (IF p.citation.url = "" THEN <<>>
          ELSE << "- [" \o ToString(p.i) \o "] " \o p.citation.title,
                  "  URL: " \o p.citation.url >>)
         \o CitationLines(Tail(pairs))

RECURSIVE CategoryBlocks(_, _)
CategoryBlocks(citations, categories) ==
    IF categories = <<>> THEN <<>>
    ELSE LET group == ByCategory(citations, Head(categories)) IN
         (IF group # <<>>
          THEN << "\n" \o CategoryName(Head(categories)) >> \o CitationLines(group)
          ELSE <<>>)
         \o CategoryBlocks(citations, Tail(categories))

\* Variant: the token line is written whether or not usage was reported.
_format_structured_output_AlwaysTokens(result) ==
    LET references == IF result.citations # <<>>
                      THEN << "\n\n## References\n" >>
                           \o CategoryBlocks(result.citations, CategoryOrder)
                      ELSE <<>>
        tokens == << "\n\n---\nTokens: "
                     \o (IF result.usage.present
                         THEN ToString(result.usage.total_tokens.n)
                         ELSE "N/A") >>
    IN Join("\n", << result.content >> \o references \o tokens)

_format_structured_output(result) ==
    LET references == IF result.citations # <<>>
                      THEN << "\n\n## References\n" >>
                           \o CategoryBlocks(result.citations, CategoryOrder)
                      ELSE <<>>
        tokens == IF result.usage.present
                  THEN << "\n\n---\nTokens: "
                          \o (IF result.usage.total_tokens.k = "int"
                              THEN ToString(result.usage.total_tokens.n)
                              ELSE "N/A") >>
                  ELSE <<>>
    IN Join("\n", << result.content >> \o references \o tokens)

(***************************************************************************)
(* ToolResult and the two attempts' own code: what the try body does with  *)
(* a response, and the except chain.                                       *)
(***************************************************************************)
ToolResult(success, output, error) ==
    [success |-> success, output |-> output, error |-> error]

ErrorDict(message) == PyObj([message |-> message])

\* Variant: a failed outcome carries no error.
Failure_WithoutError(output, message) == ToolResult(FALSE, output, PyNone)

Failure(output, message) == ToolResult(FALSE, output, ErrorDict(message))

\* str(x)
PyStrOf(x) ==
    CASE x.k = "str" -> x.s
      [] x.k = "int" -> ToString(x.n)
      [] x.k = "float" -> ToString(x.whole) \o ".0"
      [] x.k = "none" -> "None"
      [] OTHER -> "<object>"

\* A float with no fractional part, as config.get("timeout", 120.0).
PyFloat(whole) == [k |-> "float", whole |-> whole]

\* The first except clause whose class the exception is an instance of.
\* Variant: the except chain tests the base classes first.
ResearchExcept_BaseClassesFirst(e, timeout) ==
    IF IsInstance(e, "APIStatusError")
    THEN LET error_msg == "API error " \o ToString(e.status_code)
                          \o (IF e.message # "" THEN ": " \o e.message ELSE "")
         IN Failure(error_msg, error_msg)
    ELSE IF IsInstance(e, "APIConnectionError")
    THEN Failure("", "Connection error: " \o e.message)
    ELSE Failure("", "Research failed: " \o e.message)

ResearchExcept(e, timeout) ==
    IF IsInstance(e, "RateLimitError")
    THEN LET error_msg == "Rate limited: " \o e.message
         IN Failure(error_msg, error_msg)
    ELSE IF IsInstance(e, "APITimeoutError")
    THEN LET error_msg == "Research request timed out after "
                          \o PyStrOf(timeout) \o "s"
         IN Failure(error_msg, error_msg)
    ELSE IF IsInstance(e, "BadRequestError")
    THEN LET error_msg == "Invalid request: " \o e.message
         IN Failure(error_msg, error_msg)
    ELSE IF IsInstance(e, "APIStatusError")
    THEN LET error_msg == "API error " \o ToString(e.status_code)
                          \o (IF e.message # "" THEN ": " \o e.message ELSE "")
         IN Failure(error_msg, error_msg)
    ELSE IF IsInstance(e, "APIConnectionError")
    THEN Failure("", "Connection error: " \o e.message)
    ELSE Failure("", "Research failed: " \o e.message)

\* Lines 265-274: parse, format, ToolResult(success=True); an exception of
\* the parse is caught by the same except chain.
ResearchTry(response, timeout) ==
    LET parsed == _parse_response(response) IN
    IF parsed.exc # <<>> THEN ResearchExcept(parsed.exc[1], timeout)
    ELSE ToolResult(TRUE, _format_structured_output(parsed.result), PyNone)

ChatExcept(e) ==
    IF IsInstance(e, "RateLimitError")
    THEN LET error_msg == "Chat rate limited: " \o e.message
         IN Failure(error_msg, error_msg)
    ELSE IF IsInstance(e, "APIStatusError")
    THEN LET error_msg == "Chat API error " \o ToString(e.status_code)
                          \o (IF e.message # "" THEN ": " \o e.message ELSE "")
         IN Failure(error_msg, error_msg)
    ELSE Failure("", "Chat failed: " \o e.message)

NoLower == PyExc("AttributeError", "'NoneType' object has no attribute 'lower'", 0)

\* for url in message.citations: if url not in [c["url"] for c in citations];
\* a url that is None is new to the list and fails in _categorize_url.
RECURSIVE ChatCitations(_, _)
ChatCitations(acc, urls) ==
    IF urls = <<>> \/ acc.exc # <<>> THEN acc
    ELSE LET url == Head(urls) IN
         IF url.k # "str" THEN Raise(acc, NoLower)
         ELSE IF \E i \in 1..Len(acc.citations) : acc.citations[i].url = url.s
         THEN ChatCitations(acc, Tail(urls))
         ELSE ChatCitations(
                  [acc EXCEPT !.citations =
                       Append(@, [url |-> url.s, title |-> "Citation",
                                  category |-> _categorize_url(url.s)])],
                  Tail(urls))

\* Lines 343-377: the Result built from a chat response.
ChatParse(response, model) ==
    LET has_choice == Truthy(response.choices) /\ Len(response.choices.xs) > 0
        message == response.choices.xs[1].message
        content == IF has_choice THEN PyOr(message.content, PyStr("")).s ELSE ""
        cited == IF has_choice THEN GetAttr(message.citations, PyNone) ELSE PyNone
        start == [citations |-> <<>>, exc |-> <<>>]
        acc == IF Truthy(cited) THEN ChatCitations(start, cited.xs) ELSE start
        usage == IF Truthy(response.usage)
                 THEN [present |-> TRUE,
                       input_tokens |-> OrZero(response.usage.o.prompt_tokens),
                       output_tokens |-> OrZero(response.usage.o.completion_tokens),
                       total_tokens |-> PyInt(OrZero(response.usage.o.total_tokens))]
                 ELSE EmptyUsage
    IN [exc |-> acc.exc,
        result |-> [content |-> content, citations |-> acc.citations,
                    usage |-> usage, model |-> PyStr(model),
                    status |-> PyStr("completed"), error |-> Absent]]

\* Variant: the fallback note is not put in front of the output.
ChatTry_NoNote(response, model, fallback_note) ==
    LET parsed == ChatParse(response, model)
    IN IF parsed.exc # <<>> THEN ChatExcept(parsed.exc[1])
       ELSE ToolResult(TRUE, _format_structured_output(parsed.result), PyNone)

\* Lines 343-384.
ChatTry(response, model, fallback_note) ==
    LET parsed == ChatParse(response, model)
        output == _format_structured_output(parsed.result)
    IN IF parsed.exc # <<>> THEN ChatExcept(parsed.exc[1])
       ELSE ToolResult(TRUE,
                       IF fallback_note # ""
                       THEN fallback_note \o "\n\n" \o output
                       ELSE output,
                       PyNone)

(***************************************************************************)
(* Sample data: the host's inputs, the tool's configuration and what the   *)
(* upstream SDK can answer.                                                *)
(***************************************************************************)
Input(query, mode, max_steps, reasoning_effort) ==
    [query |-> query, mode |-> mode, model |-> Absent,
     reasoning_effort |-> reasoning_effort, max_steps |-> max_steps,
     instructions |-> Absent]

BasicInputs ==
    {Input(Absent, Absent, Absent, Absent),
     Input(PyStr("q"), Absent, Absent, Absent),
     Input(PyStr("q"), PyStr("research"), Absent, Absent),
     Input(PyStr("q"), PyStr("chat"), Absent, Absent)}

Inputs ==
    BasicInputs \cup
    {Input(PyStr(""), PyStr("research"), Absent, Absent),
     Input(Absent, PyStr("chat"), PyInt(3), Absent),
     Input(PyInt(7), Absent, Absent, Absent),
     Input(PyInt(7), PyStr("chat"), Absent, Absent),
     Input(PyStr("q"), PyStr("auto"), PyInt(3), PyStr("high")),
     Input(PyStr("q"), PyStr("deep"), PyStr("3"), Absent),
     Input(PyStr("q"), Absent, PyStr("abc"), Absent),
     Input(PyStr("q"), PyStr("research"), PyStr("abc"), Absent),
     Input(PyStr("q"), PyStr("chat"), PyStr("abc"), Absent)}

Annotation(url, title) == [url |-> url, title |-> title]
SearchResult(url, title, name) == [url |-> url, title |-> title, name |-> name]
TextItem(text, annotations) ==
    [type |-> PyStr("output_text"), text |-> text, annotations |-> annotations]
MessageItem(content) ==
    [type |-> PyStr("message"), content |-> content, results |-> Absent]
ResultsItem(type, results) ==
    [type |-> PyStr(type), content |-> Absent, results |-> results]

ResearchResponse(status, error, output, usage) ==
    [model |-> PyStr("pro-search"), status |-> PyStr(status), error |-> error,
     output |-> output, usage |-> usage]

ResearchOk ==
    ResearchResponse("completed", PyNone,
        PyList(<< MessageItem(PyList(<<
                      TextItem(PyStr("Answer"),
                               PyList(<< Annotation(PyStr("https://arxiv.org/a"), PyStr("Paper")),
                                         Annotation(PyStr("https://arxiv.org/a"), PyStr("Again")) >>)) >>)),
                  ResultsItem("search_results",
                      PyList(<< SearchResult(PyStr("https://bbc.co/n"), PyNone, PyStr("News")) >>)) >>),
        PyObj([input_tokens |-> PyInt(100), output_tokens |-> PyInt(200)]))

\* A response that carries a top-level error whose text names a rate limit.
ResearchErrorBody ==
    ResearchResponse("failed",
        PyObj([code |-> "429", message |-> "rate limit exceeded"]),
        PyList(<<>>), PyNone)

ResearchNullOutput == ResearchResponse("completed", PyNone, PyNone, PyNone)

ChatResponse(choices, usage) == [choices |-> choices, usage |-> usage]

ChatOk ==
    ChatResponse(
        PyList(<< [message |-> [content |-> PyStr("Chat answer"),
                                citations |-> PyList(<< PyStr("https://github.com/x"),
                                                        PyStr("https://github.com/x") >>)]] >>),
        PyObj([prompt_tokens |-> PyInt(10), completion_tokens |-> PyInt(20),
               total_tokens |-> PyInt(31)]))

ChatNoChoices == ChatResponse(PyList(<<>>), PyNone)

Returns(response) == [exc |-> <<>>, response |-> response]
Raises(e) == [exc |-> <<e>>]

RateLimited == PyExc("RateLimitError", "Rate limit exceeded", 429)
TimedOut == PyExc("APITimeoutError", "Request timed out.", 0)
ConnectionClosed == PyExc("APIConnectionError", "Connection error.", 0)

BasicResearch == {Returns(ResearchOk), Raises(RateLimited)}

AllResearch ==
    BasicResearch \cup
    {Returns(ResearchErrorBody), Returns(ResearchNullOutput),
     Raises(TimedOut),
     Raises(PyExc("BadRequestError", "invalid schema", 400)),
     Raises(PyExc("BadRequestError", "Insufficient credits", 400)),
     Raises(PyExc("APIStatusError", "Internal server error", 500)),
     Raises(PyExc("APIStatusError", "Monthly quota exceeded", 402)),
     Raises(PyExc("APIStatusError", "", 503)),
     Raises(PyExc("APIConnectionError", "Connection error.", 0)),
     Raises(PyExc("APIConnectionError", "proxy answered 429", 0)),
     Raises(PyExc("RuntimeError", "boom", 0))}

BasicChat == {Returns(ChatOk), Raises(RateLimited)}

AllChat ==
    BasicChat \cup
    {Returns(ChatNoChoices),
     Raises(TimedOut),
     Raises(PyExc("APIStatusError", "Internal server error", 500)),
     Raises(PyExc("RuntimeError", "boom", 0))}

\* config.get(...) of __init__, lines 57-67.
Tool(api_key, timeout) ==
    [_api_key |-> api_key, _client |-> 0, preset |-> "pro-search",
     reasoning_effort |-> "medium", max_steps |-> 5, timeout |-> timeout,
     max_retries |-> 2]

DefaultTool == Tool(PyStr("test-key"), PyFloat(120))

Tools ==
    {DefaultTool, Tool(PyNone, PyFloat(120)), Tool(PyStr("test-key"), PyFloat(5)),
     Tool(PyStr("test-key"), PyInt(429))}

(***************************************************************************)
(* State.                                                                  *)
(*   self    : the tool instance's attributes; _client = 0 stands for None *)
(*             and n > 0 for the n-th AsyncPerplexity object created       *)
(*   clients : the AsyncPerplexity objects created so far, each with the   *)
(*             number of close() calls made on it                          *)
(*   tasks   : the host's coroutines, each running one call of execute()   *)
(*             or close() on the instance                                  *)
(*   env     : what the host submits and what the upstream can answer      *)
(*   probe   : one call of a synchronous helper (_parse_response, the body  *)
(*             of _execute_chat, _categorize_url, an except chain) with its *)
(*             argument and, once made, its result                          *)
(*   coordinator : the host side of mount(): the process environment, the  *)
(*             config handed to mount, the tools registered and what mount *)
(*             returned                                                    *)
(***************************************************************************)
VARIABLES self, clients, tasks, env, probe, coordinator

vars == <<self, clients, tasks, env, probe, coordinator>>

NumTasks == 3

Tasks == 1..NumTasks

IdleTask ==
    [pc |-> "idle", op |-> "none", input |-> Input(Absent, Absent, Absent, Absent),
     mode |-> "", model |-> "", query |-> Absent, instructions |-> "",
     fallback_note |-> "", calls |-> <<>>, research |-> <<>>, result |-> <<>>,
     raised |-> <<>>]

\* One host coroutine running alone with every input and every upstream
\* answer, or several coroutines sharing the instance with the basic ones.
Solo == [inputs |-> Inputs, research |-> AllResearch, chat |-> AllChat,
         tools |-> Tools, executes |-> 1]

Shared == [inputs |-> BasicInputs, research |-> BasicResearch, chat |-> BasicChat,
           tools |-> {DefaultTool}, executes |-> NumTasks]

\* No helper is probed; the tool was constructed directly, without mount().
NoProbe == [kind |-> "none", done |-> FALSE]
NoCoordinator == [returned |-> "direct"]

\* Two requests one after the other or interleaved, one of which overrides
\* reasoning_effort and max_steps.
Overriding ==
    [inputs |-> {Input(PyStr("q"), PyStr("research"), Absent, Absent),
                 Input(PyStr("q"), PyStr("research"), PyInt(3), PyStr("high"))},
     research |-> {Returns(ResearchOk)}, chat |-> BasicChat,
     tools |-> {DefaultTool}, executes |-> 2]

Init ==
    /\ env \in {Solo, Shared, Overriding}
    /\ self \in env.tools
    /\ clients = <<>>
    /\ tasks = [t \in Tasks |-> IdleTask]
    /\ probe = NoProbe
    /\ coordinator = NoCoordinator

(***************************************************************************)
(* The code of one step works on st = [self, clients, task], the part of   *)
(* the state one coroutine reads and writes.                               *)
(***************************************************************************)
NoApiKey == PyExc("ValueError", "api_key must be provided for API calls", 0)

\* Variant: a client is built on every access, the cached one is not used.
client_NoCache(st) ==
    IF st.self._api_key.k = "none"
    THEN [st |-> st, exc |-> <<NoApiKey>>, client |-> 0]
    ELSE LET created == [api_key |-> st.self._api_key,
                         timeout |-> st.self.timeout,
                         max_retries |-> st.self.max_retries,
                         close_calls |-> 0]
             id == Len(st.clients) + 1
         IN [st |-> [st EXCEPT !.clients = Append(@, created),
                               !.self._client = id],
             exc |-> <<>>, client |-> id]

\* Variant: once a client has been made and dropped, the property raises.
ClientClosedError == PyExc("RuntimeError", "client has been closed", 0)

client_RefusesAfterClose(st) ==
    IF st.self._client = 0 /\ st.clients # <<>>
    THEN [st |-> st, exc |-> <<ClientClosedError>>, client |-> 0]
    ELSE IF st.self._client = 0
    THEN IF st.self._api_key.k = "none"
         THEN [st |-> st, exc |-> <<NoApiKey>>, client |-> 0]
         ELSE [st |-> [st EXCEPT !.clients = Append(@, [api_key |-> st.self._api_key,
                                                        timeout |-> st.self.timeout,
                                                        max_retries |-> st.self.max_retries,
                                                        close_calls |-> 0]),
                                 !.self._client = Len(st.clients) + 1],
               exc |-> <<>>, client |-> Len(st.clients) + 1]
    ELSE [st |-> st, exc |-> <<>>, client |-> st.self._client]

\* The `client` property, lines 135-143: [st, exc, client].
client(st) ==
    IF st.self._client = 0
    THEN IF st.self._api_key.k = "none"
         THEN [st |-> st, exc |-> <<NoApiKey>>, client |-> 0]
         ELSE LET created == [api_key |-> st.self._api_key,
                              timeout |-> st.self.timeout,
                              max_retries |-> st.self.max_retries,
                              close_calls |-> 0]
                  id == Len(st.clients) + 1
              IN [st |-> [st EXCEPT !.clients = Append(@, created),
                                    !.self._client = id],
                  exc |-> <<>>, client |-> id]
    ELSE [st |-> st, exc |-> <<>>, client |-> st.self._client]

\* return <ToolResult> from execute
Return(st, result) ==
    [st EXCEPT !.task.pc = "returned", !.task.result = <<result>>]

\* An exception leaves execute.
Propagate(st, e) ==
    [st EXCEPT !.task.pc = "raised", !.task.raised = <<e>>]

\* query[:100]
NotSubscriptable == PyExc("TypeError", "'int' object is not subscriptable", 0)
Sliceable(query) == query.k \in {"str", "list"}

\* The upstream call is made and awaited.
Await(st, api, id, args) ==
    [st EXCEPT !.task.pc = IF api = "research" THEN "await_research" ELSE "await_chat",
               !.task.calls = Append(@, [api |-> api, client |-> id, args |-> args,
                                         closed_at_start |-> st.clients[id].close_calls > 0,
                                         done |-> FALSE])]

\* _execute_chat up to its await, lines 338-341 and 419-425; an exception
\* raised before the call goes through the except chain, lines 386-404.
ChatBegin(st, fallback_note) ==
    LET st1 == [st EXCEPT !.task.fallback_note = fallback_note]
        got == client(st1)
    IN IF ~Sliceable(st.task.query) THEN Return(st1, ChatExcept(NotSubscriptable))
       ELSE IF got.exc # <<>> THEN Return(got.st, ChatExcept(got.exc[1]))
       ELSE Await(got.st, "chat", got.client,
                  [model |-> st.task.model, system |-> st.task.instructions,
                   user |-> st.task.query.s])

FallbackTriggers == {"rate limit", "quota", "429", "insufficient"}

\* Variants of the test of lines 226-231: one matches the message as it
\* is, without lower-casing it; one falls back on every failure.
ShouldFallback_CaseSensitive(result) ==
    /\ ~result.success
    /\ Truthy(result.error)
    /\ ContainsAny(result.error.o.message, FallbackTriggers)

ShouldFallback_AnyFailure(result) == ~result.success /\ Truthy(result.error)

\* Lines 226-231.
ShouldFallback(result) ==
    /\ ~result.success
    /\ Truthy(result.error)
    /\ ContainsAny(Lower(result.error.o.message), FallbackTriggers)

\* execute after _execute_research has returned `result`, lines 214-245.
AfterResearch(st, result) ==
    LET st1 == [st EXCEPT !.task.research = <<result>>] IN
    IF st.task.mode = "research" THEN Return(st1, result)
    ELSE IF ShouldFallback(result)
    THEN ChatBegin(st1, "(Fallback from Research API: "
                        \o result.error.o.message \o ")")
    ELSE Return(st1, result)

\* _execute_research up to its await, lines 255-263 and 457-466.
ResearchBegin(st, reasoning_effort, max_steps) ==
    LET got == client(st)
        combined_input == IF st.task.instructions # ""
                          THEN st.task.instructions \o "\n\nResearch question: "
                               \o PyStrOf(st.task.query)
                          ELSE PyStrOf(st.task.query)
    IN IF ~Sliceable(st.task.query)
       THEN AfterResearch(st, ResearchExcept(NotSubscriptable, st.self.timeout))
       ELSE IF got.exc # <<>>
       THEN AfterResearch(got.st, ResearchExcept(got.exc[1], st.self.timeout))
       ELSE Await(got.st, "research", got.client,
                  [input |-> combined_input, preset |-> "pro-search",
                   effort |-> reasoning_effort, max_steps |-> max_steps])

\* int(x): [exc, n]
IsDigit(c) == c \in {"0", "1", "2", "3", "4", "5", "6", "7", "8", "9"}
DigitValue(c) ==
    CASE c = "0" -> 0 [] c = "1" -> 1 [] c = "2" -> 2 [] c = "3" -> 3
      [] c = "4" -> 4 [] c = "5" -> 5 [] c = "6" -> 6 [] c = "7" -> 7
      [] c = "8" -> 8 [] OTHER -> 9

RECURSIVE ParseDigits(_, _)
ParseDigits(s, acc) ==
    IF Len(s) = 0 THEN acc
    ELSE ParseDigits(SubSeq(s, 2, Len(s)), 10 * acc + DigitValue(SubSeq(s, 1, 1)))

PyIntOf(x) ==
    IF x.k = "int" THEN [exc |-> <<>>, n |-> x.n]
    ELSE IF x.k = "str" /\ Len(x.s) > 0
            /\ \A i \in 1..Len(x.s) : IsDigit(SubSeq(x.s, i, i))
    THEN [exc |-> <<>>, n |-> ParseDigits(x.s, 0)]
    ELSE IF x.k = "str"
    THEN [exc |-> <<PyExc("ValueError",
                          "invalid literal for int() with base 10: '" \o x.s \o "'", 0)>>,
          n |-> 0]
    ELSE [exc |-> <<PyExc("TypeError", "int() argument must be a string or a number", 0)>>,
          n |-> 0]

\* `not query`, line 185; the variant tests `query is None`.
MissingQuery_IsNone(query) == query.k = "none"

MissingQuery(query) == ~Truthy(query)

DefaultInstructions == "Provide thorough, well-researched answers with citations."

\* Variant: an override of reasoning_effort or max_steps is stored on the
\* instance.
ExecuteBegin_StoresOverride(st, input) ==
    LET query == GetAttr(input.query, PyNone)
        mode == PyStrOf(GetAttr(input.mode, PyStr("auto")))
        model == PyStrOf(GetAttr(input.model, PyStr("sonar-pro")))
        reasoning_effort ==
            IF GetAttr(input.reasoning_effort, PyNone).k # "none"
            THEN PyStrOf(input.reasoning_effort)
            ELSE st.self.reasoning_effort
        steps == IF GetAttr(input.max_steps, PyNone).k # "none"
                 THEN PyIntOf(input.max_steps)
                 ELSE [exc |-> <<>>, n |-> st.self.max_steps]
        instructions == IF Truthy(GetAttr(input.instructions, PyNone))
                        THEN PyStrOf(input.instructions)
                        ELSE DefaultInstructions
        st1 == [st EXCEPT !.task.op = "execute", !.task.input = input,
                          !.task.query = query, !.task.mode = mode,
                          !.task.model = model,
                          !.task.instructions = instructions,
                          !.self.reasoning_effort = reasoning_effort,
                          !.self.max_steps = steps.n]
    IN IF MissingQuery(query)
       THEN Return(st1, ToolResult(FALSE, "",
                                   ErrorDict("Missing required parameter: query")))
       ELSE IF steps.exc # <<>> THEN Propagate(st1, steps.exc[1])
       ELSE IF mode = "chat" THEN ChatBegin(st1, "")
       ELSE ResearchBegin(st1, reasoning_effort, steps.n)

\* execute up to its first await, lines 183-223.
ExecuteBegin(st, input) ==
    LET query == GetAttr(input.query, PyNone)
        mode == PyStrOf(GetAttr(input.mode, PyStr("auto")))
        model == PyStrOf(GetAttr(input.model, PyStr("sonar-pro")))
        reasoning_effort ==
            IF GetAttr(input.reasoning_effort, PyNone).k # "none"
            THEN PyStrOf(input.reasoning_effort)
            ELSE st.self.reasoning_effort
        steps == IF GetAttr(input.max_steps, PyNone).k # "none"
                 THEN PyIntOf(input.max_steps)
                 ELSE [exc |-> <<>>, n |-> st.self.max_steps]
        instructions == IF Truthy(GetAttr(input.instructions, PyNone))
                        THEN PyStrOf(input.instructions)
                        ELSE DefaultInstructions
        st1 == [st EXCEPT !.task.op = "execute", !.task.input = input,
                          !.task.query = query, !.task.mode = mode,
                          !.task.model = model,
                          !.task.instructions = instructions]
    IN IF MissingQuery(query)
       THEN Return(st1, ToolResult(FALSE, "",
                                   ErrorDict("Missing required parameter: query")))
       ELSE IF steps.exc # <<>> THEN Propagate(st1, steps.exc[1])
       ELSE IF mode = "chat" THEN ChatBegin(st1, "")
       ELSE ResearchBegin(st1, reasoning_effort, steps.n)

\* What the awaited call can do: the upstream's answers, and a connection
\* error once close() has been called on the client that carries the call.
Outcomes(st, api) ==
    LET call == st.task.calls[Len(st.task.calls)] IN
    IF call.closed_at_start THEN {Raises(ConnectionClosed)}
    ELSE (IF api = "research" THEN env.research ELSE env.chat)
         \cup (IF st.clients[call.client].close_calls > 0
               THEN {Raises(ConnectionClosed)} ELSE {})

Finish(st, outcome) ==
    [st EXCEPT !.task.calls[Len(st.task.calls)] =
                   [@ EXCEPT !.done = TRUE] @@ [outcome |-> outcome]]

\* _execute_research from its await on, lines 258-324, then execute.
ResearchEnd(st, outcome) ==
    AfterResearch(Finish(st, outcome),
                  IF outcome.exc # <<>>
                  THEN ResearchExcept(outcome.exc[1], st.self.timeout)
                  ELSE ResearchTry(outcome.response, st.self.timeout))

\* Variant: a rate-limited chat call is tried again.
ChatEnd_Retry(st, outcome) ==
    IF outcome.exc # <<>> /\ IsInstance(outcome.exc[1], "RateLimitError")
       /\ Len(st.task.calls) < 3
    THEN ChatBegin(Finish(st, outcome), st.task.fallback_note)
    ELSE Return(Finish(st, outcome),
                IF outcome.exc # <<>> THEN ChatExcept(outcome.exc[1])
                ELSE ChatTry(outcome.response, st.task.model, st.task.fallback_note))

\* _execute_chat from its await on, lines 341-404.
ChatEnd(st, outcome) ==
    Return(Finish(st, outcome),
           IF outcome.exc # <<>> THEN ChatExcept(outcome.exc[1])
           ELSE ChatTry(outcome.response, st.task.model, st.task.fallback_note))

\* Variant: close() without the `is not None` test calls close on None.
NoneHasNoClose == PyExc("AttributeError", "'NoneType' object has no attribute 'close'", 0)

CloseBegin_NoCheck(st) ==
    LET st1 == [st EXCEPT !.task.op = "close"] IN
    IF st.self._client # 0
    THEN [st1 EXCEPT !.clients[st.self._client].close_calls = @ + 1,
                     !.task.pc = "await_close",
                     !.task.calls = Append(@, [api |-> "close",
                                               client |-> st.self._client])]
    ELSE Propagate(st1, NoneHasNoClose)

\* close up to its await, lines 151-152.
CloseBegin(st) ==
    LET st1 == [st EXCEPT !.task.op = "close"] IN
    IF st.self._client # 0
    THEN [st1 EXCEPT !.clients[st.self._client].close_calls = @ + 1,
                     !.task.pc = "await_close",
                     !.task.calls = Append(@, [api |-> "close",
                                               client |-> st.self._client])]
    ELSE [st1 EXCEPT !.task.pc = "returned"]

\* close after its await, line 153.
CloseEnd(st) ==
    [st EXCEPT !.self._client = 0, !.task.pc = "returned"]

(***************************************************************************)
(* Actions: one per stretch of code between two awaits.                    *)
(***************************************************************************)
State(t) == [self |-> self, clients |-> clients, task |-> tasks[t]]

Store(t, st) ==
    /\ self' = st.self
    /\ clients' = st.clients
    /\ tasks' = [tasks EXCEPT ![t] = st.task]
    /\ UNCHANGED <<env, probe, coordinator>>

Executes == Cardinality({t \in Tasks : tasks[t].op = "execute"})

\* The coroutines are interchangeable: they are numbered in the order in
\* which the host starts them.
NextToStart(t) ==
    /\ tasks[t].pc = "idle"
    /\ \A u \in Tasks : u < t => tasks[u].pc # "idle"

ExecuteStart(t) ==
    /\ NextToStart(t)
    /\ Executes < env.executes
    /\ \E input \in env.inputs : Store(t, ExecuteBegin(State(t), input))

ResearchReturn(t) ==
    /\ tasks[t].pc = "await_research"
    /\ \E outcome \in Outcomes(State(t), "research") :
           Store(t, ResearchEnd(State(t), outcome))

ChatReturn(t) ==
    /\ tasks[t].pc = "await_chat"
    /\ \E outcome \in Outcomes(State(t), "chat") :
           Store(t, ChatEnd(State(t), outcome))

CloseStart(t) ==
    /\ NextToStart(t)
    /\ Store(t, CloseBegin(State(t)))

CloseFinish(t) ==
    /\ tasks[t].pc = "await_close"
    /\ Store(t, CloseEnd(State(t)))

Next ==
    \E t \in Tasks :
        \/ ExecuteStart(t)
        \/ ResearchReturn(t)
        \/ ChatReturn(t)
        \/ CloseStart(t)
        \/ CloseFinish(t)

Spec == Init /\ [][Next]_vars

(***************************************************************************)
(* The synchronous helpers on their own: each behaviour is one call of     *)
(* _parse_response, of the response handling of _execute_chat, of          *)
(* _categorize_url or of an except chain, on an argument drawn from the    *)
(* bounded sets below.                                                     *)
(***************************************************************************)
MaxOutputItems == 3
MaxCitationUrls == 3
MaxTokens == 3
MaxUrlParts == 2

SeqsUpTo(S, n) == UNION {[1..k -> S] : k \in 0..n}

\* Citation candidates as the upstream sends them: two with the same url
\* and different titles, one without a title, one whose url is empty and
\* one whose url is null.
Candidates ==
    {Annotation(PyStr("https://arxiv.org/a"), PyStr("First")),
     Annotation(PyStr("https://arxiv.org/a"), PyStr("Second")),
     Annotation(PyStr("https://bbc.co/n"), PyNone),
     Annotation(PyStr(""), PyStr("Empty")),
     Annotation(PyNone, PyStr("No url"))}

\* An output item that carries one candidate, per item kind.
ItemOf(kind, c) ==
    CASE kind = "message" ->
             MessageItem(PyList(<< TextItem(PyStr("Text"), PyList(<< c >>)) >>))
      [] kind = "search_results" ->
             ResultsItem(kind, PyList(<< SearchResult(c.url, c.title, PyStr("Named")) >>))
      [] OTHER -> ResultsItem(kind, PyList(<< c >>))

ItemKinds == {"message", "search_results", "fetch_url_results"}

\* Items whose optional sequence is null.
NullItems == {MessageItem(PyNone), ResultsItem("search_results", PyNone)}

OutputItems ==
    {ItemOf(kind, c) : kind \in ItemKinds, c \in Candidates} \cup NullItems

TokenCounts == {PyNone} \cup {PyInt(n) : n \in 0..MaxTokens}

Usages ==
    {PyNone} \cup
    {PyObj([input_tokens |-> i, output_tokens |-> o]) :
         i \in TokenCounts, o \in TokenCounts}

ResearchResponses ==
    {ResearchOk, ResearchErrorBody, ResearchNullOutput}
    \cup {ResearchResponse("completed", PyNone, PyList(output), PyNone) :
              output \in SeqsUpTo(OutputItems, MaxOutputItems)}
    \cup {ResearchResponse("completed", PyNone, PyList(<<>>), usage) :
              usage \in Usages}
    \cup {ResearchResponse("failed", ResearchErrorBody.error, PyList(output), PyNone) :
              output \in SeqsUpTo(OutputItems, MaxOutputItems - 1)}

CitationUrls ==
    {PyStr("https://arxiv.org/a"), PyStr("https://github.com/x"), PyStr(""), PyNone}

ChatMessage(content, citations) ==
    [message |-> [content |-> content, citations |-> citations]]

ChatResponses ==
    {ChatOk, ChatNoChoices}
    \cup {ChatResponse(PyList(<< ChatMessage(PyStr("Chat answer"), PyList(urls)) >>),
                       PyNone) :
              urls \in SeqsUpTo(CitationUrls, MaxCitationUrls)}
    \cup {ChatResponse(PyList(<< ChatMessage(content, citations) >>), PyNone) :
              content \in {PyNone, PyStr("")}, citations \in {PyNone, Absent}}

UrlParts ==
    {"arxiv.org", "ARXIV.ORG", "github.com", "GitHub.com", "techcrunch",
     "TechCrunch", "example.com", "/docs/", ".edu/", "/news/", "x"}

Urls ==
    {""} \cup
    {scheme \o Join("/", parts) :
         scheme \in {"https://", "HTTP://"},
         parts \in SeqsUpTo(UrlParts, MaxUrlParts) \ {<<>>}}

\* One exception per failure classification, all with the same text.
Failures ==
    {PyExc("RateLimitError", "boom", 429),
     PyExc("APITimeoutError", "boom", 0),
     PyExc("BadRequestError", "boom", 400),
     PyExc("APIStatusError", "boom", 500),
     PyExc("APIStatusError", "", 500),
     PyExc("APIConnectionError", "boom", 0),
     PyExc("RuntimeError", "boom", 0)}

\* The urls of a Result's citations: two academic ones, one of each other
\* category, and the empty url that the chat shape lets through.
FormatUrls ==
    {"https://arxiv.org/a", "https://nature.com/b", "https://bbc.co/n",
     "https://github.com/x", "https://example.com/o", ""}

MaxCitations == 3

DistinctSeqs(S, n) ==
    {seq \in SeqsUpTo(S, n) :
         \A i, j \in 1..Len(seq) : i # j => seq[i] # seq[j]}

ChatUsage ==
    PyObj([prompt_tokens |-> PyInt(1), completion_tokens |-> PyInt(2),
           total_tokens |-> PyInt(3)])

\* The Results handed to the formatter: what _execute_chat builds from a
\* response with the given content, citation urls and usage.
Results ==
    {ChatParse(ChatResponse(
                   PyList(<< ChatMessage(PyStr(content),
                                         PyList([i \in 1..Len(urls) |-> PyStr(urls[i])])) >>),
                   usage),
               "sonar-pro").result :
         content \in {"X", ""},
         urls \in DistinctSeqs(FormatUrls, MaxCitations),
         usage \in {PyNone, ChatUsage}}

Probes ==
    {[kind |-> "research", response |-> r, done |-> FALSE] : r \in ResearchResponses}
    \cup {[kind |-> "format", result |-> r, done |-> FALSE] : r \in Results}
    \cup {[kind |-> "chat", response |-> r, done |-> FALSE] : r \in ChatResponses}
    \cup {[kind |-> "url", url |-> u, done |-> FALSE] : u \in Urls}
    \cup {[kind |-> "except", attempt |-> a, first |-> e, second |-> f,
           done |-> FALSE] :
              a \in {"research", "chat"}, e \in Failures, f \in Failures}

HelperInit ==
    /\ env = Solo
    /\ self = DefaultTool
    /\ clients = <<>>
    /\ tasks = [t \in Tasks |-> IdleTask]
    /\ coordinator = NoCoordinator
    /\ probe \in Probes

Probed(kind) == probe.kind = kind /\ ~probe.done

Done(result) ==
    /\ probe' = [probe EXCEPT !.done = TRUE] @@ result
    /\ UNCHANGED <<self, clients, tasks, env, coordinator>>

\* result = self._parse_response(response)
ParseResponse ==
    /\ Probed("research")
    /\ Done([parsed |-> _parse_response(probe.response)])

\* The Result built in _execute_chat, lines 343-377.
BuildChatResult ==
    /\ Probed("chat")
    /\ Done([parsed |-> ChatParse(probe.response, "sonar-pro")])

\* self._categorize_url(url)
CategorizeUrl ==
    /\ Probed("url")
    /\ Done([category |-> _categorize_url(probe.url)])

\* The except chain of the attempt, on each of the two exceptions.
ReportFailure ==
    /\ Probed("except")
    /\ Done([reports |->
                 IF probe.attempt = "research"
                 THEN << ResearchExcept(probe.first, self.timeout),
                         ResearchExcept(probe.second, self.timeout) >>
                 ELSE << ChatExcept(probe.first), ChatExcept(probe.second) >>])

\* output = self._format_structured_output(result)
FormatOutput ==
    /\ Probed("format")
    /\ Done([output |-> _format_structured_output(probe.result)])

HelperNext ==
    \/ ParseResponse
    \/ FormatOutput
    \/ BuildChatResult
    \/ CategorizeUrl
    \/ ReportFailure

HelperSpec == HelperInit /\ [][HelperNext]_vars

(***************************************************************************)
(* mount(coordinator, config): the host loads the module, and then uses    *)
(* the registered tool and the cleanup callback mount returned.            *)
(*   coordinator.returned : "pending" before mount is called, "mounting"   *)
(*       while it awaits coordinator.mount, then "none" (mount returned    *)
(*       None) or "cleanup" (it returned the cleanup callback)             *)
(***************************************************************************)
Config(api_key, timeout) == [api_key |-> api_key, timeout |-> timeout]

\* config = None and config = {} are the same to mount: config or {}.
EmptyConfig == Config(Absent, Absent)

Configs ==
    {Config(api_key, timeout) :
         api_key \in {Absent, PyNone, PyStr(""), PyStr("config-key")},
         timeout \in {Absent, PyFloat(5)}}

\* os.environ.get("PERPLEXITY_API_KEY")
Environs == {Absent, PyStr(""), PyStr("env-key")}

\* PerplexityResearchTool(api_key=api_key, config=config), lines 57-67.
__init__(api_key, config) ==
    Tool(api_key, GetAttr(config.timeout, PyFloat(120)))

\* Variant: the environment is not consulted.
ResolveApiKey_ConfigOnly(config, environ) == GetAttr(config.api_key, PyNone)

\* config.get("api_key") or os.environ.get("PERPLEXITY_API_KEY"), line 730
ResolveApiKey(config, environ) ==
    PyOr(GetAttr(config.api_key, PyNone), GetAttr(environ, PyNone))

\* What the host does with a mounted tool: one request, and cleanup calls.
Mounted == [inputs |-> {Input(PyStr("q"), Absent, Absent, Absent)},
            research |-> BasicResearch, chat |-> BasicChat,
            tools |-> {DefaultTool}, executes |-> 1]

MountInit ==
    /\ env = Mounted
    /\ self = Tool(PyNone, PyFloat(120))
    /\ clients = <<>>
    /\ tasks = [t \in Tasks |-> IdleTask]
    /\ probe = NoProbe
    /\ coordinator \in {[returned |-> "pending", environ |-> e, config |-> c,
                         mount_history |-> <<>>] :
                            e \in Environs, c \in Configs}

\* mount up to `await coordinator.mount(...)`, lines 729-745.
MountBegin ==
    /\ coordinator.returned = "pending"
    /\ LET api_key == ResolveApiKey(coordinator.config, coordinator.environ) IN
       IF ~Truthy(api_key)
       THEN /\ coordinator' = [coordinator EXCEPT !.returned = "none"]
            /\ UNCHANGED self
       ELSE /\ coordinator' = [coordinator EXCEPT !.returned = "mounting"]
            /\ self' = __init__(api_key, coordinator.config)
    /\ UNCHANGED <<clients, tasks, env, probe>>

\* The coordinator has registered the tool; mount returns cleanup.
MountEnd ==
    /\ coordinator.returned = "mounting"
    /\ coordinator' =
           [coordinator EXCEPT
                !.returned = "cleanup",
                !.mount_history = Append(@, [mount_point |-> "tools",
                                             name |-> "perplexity_research"])]
    /\ UNCHANGED <<self, clients, tasks, env, probe>>

\* cleanup(): await tool.close(), lines 748-750.
CleanupStart(t) ==
    /\ NextToStart(t)
    /\ Store(t, [CloseBegin(State(t)) EXCEPT !.task.op = "cleanup"])

MountNext ==
    \/ MountBegin
    \/ MountEnd
    \/ /\ coordinator.returned = "cleanup"
       /\ \E t \in Tasks :
              \/ ExecuteStart(t)
              \/ ResearchReturn(t)
              \/ ChatReturn(t)
              \/ CleanupStart(t)
              \/ CloseFinish(t)

MountSpec == MountInit /\ [][MountNext]_vars

(***************************************************************************)
(* Properties.                                                             *)
(***************************************************************************)
IsExecute(t) == tasks[t].op = "execute"
IsClose(t) == tasks[t].op = "close"
Returned(t) == tasks[t].pc = "returned"

\* Auto mode: every mode string other than "research" and "chat".
AutoMode(t) == IsExecute(t) /\ tasks[t].mode \notin {"research", "chat"}

ChatCalls(t) ==
    {i \in 1..Len(tasks[t].calls) : tasks[t].calls[i].api = "chat"}

ResearchFailed(t) ==
    tasks[t].research # <<>> /\ ~tasks[t].research[1].success

ResearchMessage(t) == tasks[t].research[1].error.o.message

HasTrigger(message) ==
    \E trigger \in {"rate limit", "quota", "429", "insufficient"} :
        Contains(Lower(message), trigger)

\* C1: in auto mode a chat call is issued if and only if the research
\* attempt failed and its lower-cased message contains "rate limit",
\* "quota", "429" or "insufficient"; otherwise, once the research attempt
\* is over, no chat call is made and execute has returned the research
\* outcome unchanged.
C1_FallbackIffTrigger ==
    \A t \in Tasks :
        AutoMode(t) =>
            /\ (ChatCalls(t) # {})
                   <=> (ResearchFailed(t) /\ HasTrigger(ResearchMessage(t)))
            /\ (tasks[t].research # <<>> /\ ChatCalls(t) = {})
                   => (Returned(t) /\ tasks[t].result = tasks[t].research)

C1_Witness ==
    \E t, u \in Tasks :
        /\ AutoMode(t) /\ Returned(t) /\ ChatCalls(t) # {}
        /\ Contains(ResearchMessage(t), "Rate limited")
        /\ AutoMode(u) /\ Returned(u) /\ ChatCalls(u) = {}
        /\ tasks[u].research # <<>>

\* C2: a request makes at most two upstream calls, never two at a time;
\* a second call is a chat call made after the research call has finished
\* with a failure, and nothing follows it.
C2_AtMostTwoCallsInSequence ==
    \A t \in Tasks :
        IsExecute(t) =>
            LET calls == tasks[t].calls IN
            /\ Len(calls) <= 2
            /\ Cardinality({i \in 1..Len(calls) : ~calls[i].done}) <= 1
            /\ \A i \in 1..Len(calls) : ~calls[i].done => i = Len(calls)
            /\ Len(calls) = 2 =>
                   /\ calls[1].api = "research" /\ calls[1].done
                   /\ ResearchFailed(t)
                   /\ calls[2].api = "chat"
            /\ tasks[t].pc \in {"returned", "raised"} =>
                   \A i \in 1..Len(calls) : calls[i].done

C2_Witness ==
    \E t \in Tasks :
        /\ IsExecute(t) /\ Returned(t)
        /\ Len(tasks[t].calls) = 2
        /\ ~tasks[t].result[1].success

\* What the code makes of an upstream call's outcome, per attempt.
ResearchOutcome(call, timeout) ==
    IF call.outcome.exc # <<>> THEN ResearchExcept(call.outcome.exc[1], timeout)
    ELSE ResearchTry(call.outcome.response, timeout)

DirectChatOutcome(call, model) ==
    IF call.outcome.exc # <<>> THEN ChatExcept(call.outcome.exc[1])
    ELSE ChatTry(call.outcome.response, model, "")

\* A request that gets as far as the network: a non-empty query that can
\* be sliced, on a tool that has an API key.
ReachesUpstream(t) ==
    /\ Truthy(tasks[t].query) /\ Sliceable(tasks[t].query)
    /\ self._api_key.k # "none"

\* The request is over: execute has returned or an exception has left it.
Finished(t) == tasks[t].pc \in {"returned", "raised"}

\* C3 as stated: with mode "research" or "chat" given, a request with a
\* usable query on a tool that has an API key ends having made exactly one
\* upstream call, in that mode, and returns that call's outcome, success
\* or failure, fallback trigger or not.
C3_ExplicitModeExactlyOneCall ==
    \A t \in Tasks :
        (IsExecute(t) /\ tasks[t].mode \in {"research", "chat"}
         /\ ReachesUpstream(t) /\ Finished(t)) =>
            LET calls == tasks[t].calls IN
            /\ Len(calls) = 1
            /\ calls[1].api = tasks[t].mode
            /\ Returned(t)
            /\ tasks[t].result[1] =
                   IF tasks[t].mode = "research"
                   THEN ResearchOutcome(calls[1], self.timeout)
                   ELSE DirectChatOutcome(calls[1], tasks[t].model)

\* The classification of a failed research attempt: the first except
\* clause that catches the exception the upstream call raised; a failure
\* raised elsewhere in the attempt is unclassified.
FailureKind(t) ==
    LET calls == tasks[t].calls IN
    IF calls = <<>> \/ calls[1].outcome.exc = <<>> THEN "unclassified"
    ELSE LET e == calls[1].outcome.exc[1] IN
         IF IsInstance(e, "RateLimitError") THEN "rate-limited"
         ELSE IF IsInstance(e, "APITimeoutError") THEN "timed-out"
         ELSE IF IsInstance(e, "BadRequestError") THEN "invalid-request"
         ELSE IF IsInstance(e, "APIStatusError")
         THEN IF e.status_code = 429 THEN "status-429" ELSE "upstream-status-error"
         ELSE IF IsInstance(e, "APIConnectionError") THEN "connection-error"
         ELSE "unclassified"

TerminalKinds ==
    {"timed-out", "invalid-request", "upstream-status-error", "connection-error",
     "unclassified"}

NoQuery(input) ==
    input.query.k \in {"absent", "none"}
    \/ (input.query.k = "str" /\ input.query.s = "")

\* C5: execute called without a query, or with an empty one, returns at
\* once success=false with the message "Missing required parameter:
\* query", has made no upstream call, and has left the tool's client handle
\* and the set of clients as they were, in every mode.
C5_MissingQueryRejected ==
    [][\A t \in Tasks :
          (tasks[t].pc = "idle" /\ tasks'[t].op = "execute"
           /\ NoQuery(tasks'[t].input)) =>
              /\ tasks'[t].pc = "returned"
              /\ tasks'[t].result =
                     << [success |-> FALSE, output |-> "",
                         error |-> PyObj([message |->
                                   "Missing required parameter: query"])] >>
              /\ tasks'[t].calls = <<>>
              /\ clients' = clients
              /\ self' = self]_vars

C5_Witness ==
    \E t, u \in Tasks :
        /\ IsExecute(t) /\ NoQuery(tasks[t].input) /\ Returned(t)
        /\ tasks[t].calls = <<>>
        /\ IsExecute(u) /\ tasks[u].calls # <<>>
        /\ t > u

\* C6 as stated: execute always ends by returning an outcome record; no
\* exception leaves it.
C6_NoFaultReachesHost ==
    \A t \in Tasks : IsExecute(t) => tasks[t].pc # "raised"

\* C7: when auto mode has fallen back, execute returns what the chat
\* attempt yields: on success the annotation line naming the research
\* error, a blank line, and the output a direct chat call would give; on
\* failure the chat failure.
C7_FallbackReturnsChatOutcome ==
    \A t \in Tasks :
        (AutoMode(t) /\ ChatCalls(t) # {} /\ Returned(t)) =>
            LET call == tasks[t].calls[2]
                direct == DirectChatOutcome(call, tasks[t].model)
                result == tasks[t].result[1]
            IN IF direct.success
               THEN /\ result.success
                    /\ result.error = PyNone
                    /\ result.output =
                           "(Fallback from Research API: " \o ResearchMessage(t)
                           \o ")" \o "\n\n" \o direct.output
               ELSE result = direct

C7_Witness ==
    \E t, u \in Tasks :
        /\ AutoMode(t) /\ ChatCalls(t) # {} /\ Returned(t)
        /\ tasks[t].result[1].success
        /\ AutoMode(u) /\ ChatCalls(u) # {} /\ Returned(u)
        /\ ~tasks[u].result[1].success

CompletedCloses ==
    Cardinality({t \in Tasks : IsClose(t) /\ Returned(t) /\ tasks[t].calls # <<>>})

\* C8: while no close() has been called, all requests, however they
\* interleave, share one client: at most one client exists, it is the one
\* the handle holds, and every upstream call goes through it.  In general
\* a further client is created only after a close() has completed.
C8_OneSharedClient ==
    /\ Len(clients) <= 1 + CompletedCloses
    /\ (\A t \in Tasks : ~IsClose(t)) =>
           /\ Len(clients) <= 1
           /\ self._client = Len(clients)
           /\ \A t \in Tasks : \A i \in 1..Len(tasks[t].calls) :
                  tasks[t].calls[i].client = self._client

C8_Witness ==
    \E t, u \in Tasks :
        /\ t # u
        /\ tasks[t].pc = "await_research" /\ tasks[u].pc = "await_chat"
        /\ tasks[t].calls[1].client = tasks[u].calls[1].client
        /\ Len(clients) = 1
        /\ \A v \in Tasks : ~IsClose(v)

\* A close() that closed a client has completed.
ClientClosed ==
    \E t \in Tasks : IsClose(t) /\ Returned(t) /\ tasks[t].calls # <<>>

\* C9 as stated: once a close() has completed, no client is created any
\* more and no upstream call is started.
C9_NoClientAfterClose ==
    [][ClientClosed =>
           /\ Len(clients') = Len(clients)
           /\ \A t \in Tasks : Len(tasks'[t].calls) = Len(tasks[t].calls)]_vars

\* C10: a close() called while the handle is empty (after a completed
\* close(), or before any client was created) returns without raising,
\* calls close on no client and leaves the handle empty; every close()
\* leaves the handle empty when it returns; and when close() calls do not
\* overlap, no client has close called on it twice.
C10_CloseIdempotent ==
    [][\A t \in Tasks :
          /\ (tasks[t].pc = "idle" /\ tasks'[t].op = "close" /\ self._client = 0) =>
                 /\ tasks'[t].pc = "returned"
                 /\ tasks'[t].raised = <<>>
                 /\ tasks'[t].calls = <<>>
                 /\ clients' = clients
                 /\ self'._client = 0
          /\ (tasks[t].pc = "idle" /\ tasks'[t].op = "close" /\ self._client # 0
              /\ \A u \in Tasks : tasks[u].pc # "await_close") =>
                 /\ clients[self._client].close_calls = 0
                 /\ clients'[self._client].close_calls = 1
          /\ (IsClose(t) /\ tasks[t].pc # "returned" /\ tasks'[t].pc = "returned") =>
                 self'._client = 0]_vars

C10_Witness ==
    \E t, u \in Tasks :
        /\ t < u
        /\ IsClose(t) /\ Returned(t) /\ tasks[t].calls # <<>>
        /\ IsClose(u) /\ Returned(u) /\ tasks[u].calls = <<>>
        /\ self._client = 0
        /\ \A i \in 1..Len(clients) : clients[i].close_calls = 1

\* A Result has been built from an upstream response of the given shape.
ResultBuilt(kind) ==
    probe.kind = kind /\ probe.done /\ probe.parsed.exc = <<>>

Citations == probe.parsed.result.citations

\* C11 as stated: in every Result built from an upstream response, of the
\* deep-research shape or of the chat shape, every citation has a
\* non-empty url and no two citations have the same url.
C11_UrlsNonEmptyAndUnique ==
    (ResultBuilt("research") \/ ResultBuilt("chat")) =>
        /\ \A i \in 1..Len(Citations) : Citations[i].url # ""
        /\ \A i, j \in 1..Len(Citations) :
               i # j => Citations[i].url # Citations[j].url

\* The citation candidates of a deep-research response in the order of
\* the walk, each with the title the code reads for its item kind.
RECURSIVE Flatten(_)
Flatten(seqs) == IF seqs = <<>> THEN <<>> ELSE Head(seqs) \o Flatten(Tail(seqs))

CandidatesOfBlock(block) ==
    [i \in 1..Len(block.annotations.xs) |->
         [url |-> block.annotations.xs[i].url,
          title |-> block.annotations.xs[i].title]]

CandidatesOfItem(item) ==
    CASE item.type.s = "message" ->
             Flatten([i \in 1..Len(item.content.xs) |->
                          CandidatesOfBlock(item.content.xs[i])])
      [] item.type.s = "search_results" ->
             [i \in 1..Len(item.results.xs) |->
                  [url |-> item.results.xs[i].url,
                   title |-> IF Truthy(item.results.xs[i].title)
                             THEN item.results.xs[i].title
                             ELSE item.results.xs[i].name]]
      [] OTHER ->
             [i \in 1..Len(item.results.xs) |->
                  [url |-> item.results.xs[i].url,
                   title |-> IF Truthy(item.results.xs[i].title)
                             THEN item.results.xs[i].title
                             ELSE item.results.xs[i].url]]

WalkCandidates ==
    Flatten([i \in 1..Len(probe.response.output.xs) |->
                 CandidatesOfItem(probe.response.output.xs[i])])

HasUrl(c) == c.url.k = "str" /\ c.url.s # ""

ShownTitle(c) ==
    IF c.title.k = "str" /\ c.title.s # "" /\ c.title.s # c.url.s
    THEN c.title.s ELSE "Untitled"

\* The positions of the candidates that are the first with their url.
FirstOccurrences(cs) ==
    SelectSeq([i \in 1..Len(cs) |-> i],
              LAMBDA i : HasUrl(cs[i])
                         /\ \A j \in 1..(i - 1) :
                                HasUrl(cs[j]) => cs[j].url.s # cs[i].url.s)

\* C12: when the walk of a deep-research response meets several
\* candidates with the same url, the Result has one citation per url, in
\* the order in which the urls first occur, each with the title of the
\* first candidate that has this url; later candidates change nothing.
C12_FirstSeenTitleAndOrder ==
    ResultBuilt("research") =>
        LET cs == WalkCandidates
            first == FirstOccurrences(cs)
        IN /\ Len(Citations) = Len(first)
           /\ \A k \in 1..Len(first) :
                  /\ Citations[k].url = cs[first[k]].url.s
                  /\ Citations[k].title = ShownTitle(cs[first[k]])

C12_Witness ==
    /\ ResultBuilt("research")
    /\ Len(Citations) = 2
    /\ \E i, j, k \in 1..Len(WalkCandidates) :
           LET cs == WalkCandidates IN
           /\ i < j /\ j < k
           /\ HasUrl(cs[i]) /\ HasUrl(cs[j]) /\ HasUrl(cs[k])
           /\ cs[i].url.s = cs[k].url.s /\ cs[i].url.s # cs[j].url.s
           /\ ShownTitle(cs[i]) # ShownTitle(cs[k])
           /\ Citations[1].title = ShownTitle(cs[i])

\* The classification of a failure: the class of the exception raised.
Classification(e) ==
    IF IsInstance(e, "RateLimitError") THEN "rate-limited"
    ELSE IF IsInstance(e, "APITimeoutError") THEN "timed-out"
    ELSE IF IsInstance(e, "BadRequestError") THEN "invalid-request"
    ELSE IF IsInstance(e, "APIStatusError") THEN "upstream-status-error"
    ELSE IF IsInstance(e, "APIConnectionError") THEN "connection-error"
    ELSE "unclassified"

ReportedMessage(i) == probe.reports[i].error.o.message

\* C13 as stated: in each attempt, research or chat, two failures of
\* different classifications are reported with different templates: given
\* the same error text, their messages differ.
C13_DistinctTemplates ==
    (/\ probe.kind = "except" /\ probe.done
     /\ Classification(probe.first) # Classification(probe.second)
     /\ probe.first.message = probe.second.message)
        => ReportedMessage(1) # ReportedMessage(2)

\* An API key can be had from the config or from the environment.
KeyAvailable ==
    \/ (coordinator.config.api_key.k = "str" /\ coordinator.config.api_key.s # "")
    \/ (coordinator.environ.k = "str" /\ coordinator.environ.s # "")

Registration == [mount_point |-> "tools", name |-> "perplexity_research"]

\* What holds once mount has returned.
MountOutcome ==
    coordinator.returned \in {"none", "cleanup"} =>
        IF KeyAvailable
        THEN /\ coordinator.returned = "cleanup"
             /\ coordinator.mount_history = << Registration >>
             /\ self._api_key.k = "str" /\ self._api_key.s # ""
        ELSE /\ coordinator.returned = "none"
             /\ coordinator.mount_history = <<>>
             /\ clients = <<>>

\* What one call of the cleanup callback does.
CleanupCloses ==
    \A t \in Tasks :
        /\ (tasks[t].pc = "idle" /\ tasks'[t].op = "cleanup" /\ self._client # 0) =>
               /\ tasks'[t].calls = << [api |-> "close", client |-> self._client] >>
               /\ clients'[self._client].close_calls =
                      clients[self._client].close_calls + 1
        /\ (tasks[t].op = "cleanup" /\ tasks[t].pc = "await_close"
            /\ tasks'[t].pc = "returned") => self'._client = 0

\* C14: mount returns no cleanup callback and registers nothing when
\* neither the config nor the environment has a (non-empty) API key;
\* otherwise it registers the tool exactly once, under the name
\* "perplexity_research", and returns a cleanup callback; a call of that
\* callback calls close on the tool's client and leaves the handle empty.
C14_MountRegistersOrReturnsNone ==
    [][MountOutcome' /\ CleanupCloses]_vars

C14_Witness ==
    /\ coordinator.returned = "cleanup"
    /\ coordinator.config.api_key = PyStr("")
    /\ coordinator.environ = PyStr("env-key")
    /\ coordinator.mount_history = << Registration >>
    /\ \E t \in Tasks :
           /\ tasks[t].op = "cleanup" /\ tasks[t].pc = "returned"
           /\ tasks[t].calls # <<>>
           /\ clients[tasks[t].calls[1].client].close_calls = 1

\* The same request run alone: on an instance with the same configuration
\* and no client yet, with no other coroutine, given the upstream answers
\* that its own calls got.
AloneStart(t) ==
    ExecuteBegin([self |-> [self EXCEPT !._client = 0], clients |-> <<>>,
                  task |-> IdleTask],
                 tasks[t].input)

AloneAnswer(st, t) ==
    LET i == Len(st.task.calls) IN
    IF st.task.pc = "await_research" /\ i <= Len(tasks[t].calls)
    THEN ResearchEnd(st, tasks[t].calls[i].outcome)
    ELSE IF st.task.pc = "await_chat" /\ i <= Len(tasks[t].calls)
    THEN ChatEnd(st, tasks[t].calls[i].outcome)
    ELSE st

AloneRun(t) == AloneAnswer(AloneAnswer(AloneStart(t), t), t).task

\* C15: whatever other requests and close() calls run on the instance at
\* the same time, a finished request has made the calls and returned the
\* outcome that the same input gives when it runs alone with the same
\* upstream answers to its calls.
C15_OutcomeAsWhenAlone ==
    \A t \in Tasks :
        (IsExecute(t) /\ Finished(t)) =>
            LET alone == AloneRun(t) IN
            /\ alone.pc = tasks[t].pc
            /\ alone.result = tasks[t].result
            /\ alone.raised = tasks[t].raised
            /\ Len(alone.calls) = Len(tasks[t].calls)
            /\ \A i \in 1..Len(alone.calls) :
                   /\ alone.calls[i].api = tasks[t].calls[i].api
                   /\ alone.calls[i].args = tasks[t].calls[i].args

\* A request ran from start to end while another was in flight, after a
\* close() had completed, and the two have different outcomes so far.
C15_Witness ==
    \E t, u, v \in Tasks :
        /\ u < t
        /\ IsExecute(u) /\ tasks[u].pc \in {"await_research", "await_chat"}
        /\ IsExecute(t) /\ Returned(t) /\ Len(tasks[t].calls) = 2
        /\ tasks[t].result[1].success
        /\ IsClose(v) /\ Returned(v) /\ tasks[v].calls # <<>>

\* The tool's shared configuration.
Configuration(tool) ==
    [preset |-> tool.preset, reasoning_effort |-> tool.reasoning_effort,
     max_steps |-> tool.max_steps, timeout |-> tool.timeout,
     max_retries |-> tool.max_retries]

Overrides(input) ==
    input.reasoning_effort.k = "str" /\ input.max_steps.k = "int"

ResearchArgs(t) == tasks[t].calls[1].args

\* C16: no step of execute changes the tool's preset, reasoning effort,
\* max steps, timeout or max retries; a request that overrides
\* reasoning_effort or max_steps sends its own values upstream, and a
\* request that does not sends the tool's defaults, also after or during
\* a request that did override them.
C16_ConfigurationUnchanged ==
    [][/\ Configuration(self') = Configuration(self)
       /\ \A t \in Tasks :
              (tasks[t].pc = "idle" /\ tasks'[t].pc = "await_research") =>
                  LET input == tasks'[t].input
                      args == tasks'[t].calls[1].args
                  IN /\ args.effort = IF input.reasoning_effort.k = "str"
                                      THEN input.reasoning_effort.s
                                      ELSE self.reasoning_effort
                     /\ input.max_steps.k = "int" =>
                            args.max_steps = input.max_steps.n
                     /\ input.max_steps.k \in {"absent", "none"} =>
                            args.max_steps = self.max_steps]_vars

C16_Witness ==
    \E t, u \in Tasks :
        /\ t < u
        /\ IsExecute(t) /\ Overrides(tasks[t].input) /\ Returned(t)
        /\ tasks[t].calls # <<>> /\ tasks[u].calls # <<>>
        /\ ResearchArgs(t).effort = "high" /\ ResearchArgs(t).max_steps = 3
        /\ IsExecute(u) /\ ~Overrides(tasks[u].input) /\ Returned(u)
        /\ ResearchArgs(u).effort = "medium" /\ ResearchArgs(u).max_steps = 5
        /\ self.reasoning_effort = "medium" /\ self.max_steps = 5

\* C17 as stated: _parse_response returns a Result for every raw
\* response, also when the output sequence, a content sequence, a results
\* sequence, the annotations, the usage or a token count is null; it never
\* raises.
C17_NormalizeNeverRaises ==
    (probe.kind = "research" /\ probe.done) => probe.parsed.exc = <<>>

\* A token count as the upstream reports it: a number, or nothing.
Count(x) == IF x.k = "int" THEN x.n ELSE 0

ReportsUsage ==
    /\ probe.kind = "research" /\ probe.done /\ probe.parsed.exc = <<>>
    /\ probe.response.usage.k = "obj"

\* C18: for a deep-research response that reports usage, the Result's
\* total token count is the input count plus the output count, a count
\* that is absent taken as 0, and the two counts are reported the same way.
C18_TotalIsInputPlusOutput ==
    ReportsUsage =>
        LET reported == probe.response.usage.o
            usage == probe.parsed.result.usage
        IN /\ usage.present
           /\ usage.input_tokens = Count(reported.input_tokens)
           /\ usage.output_tokens = Count(reported.output_tokens)
           /\ usage.total_tokens =
                  PyInt(Count(reported.input_tokens) + Count(reported.output_tokens))

C18_Witness ==
    /\ ReportsUsage
    /\ probe.response.usage.o.input_tokens = PyNone
    /\ probe.response.usage.o.output_tokens = PyInt(MaxTokens)
    /\ probe.parsed.result.usage.total_tokens = PyInt(MaxTokens)

Classified == probe.kind = "url" /\ probe.done

\* Some entry of the rule set is a substring of the lower-cased url.
Matches(entries) == \E entry \in entries : Contains(Lower(probe.url), entry)

\* C19 as stated: academic for every url that contains "arxiv.org", docs
\* for every url that contains "github.com", news for every url that
\* contains "techcrunch", other for a url that matches no rule entry.
C19_KeywordDecidesCategory ==
    Classified =>
        /\ Contains(probe.url, "arxiv.org") => probe.category = "academic"
        /\ Contains(probe.url, "github.com") => probe.category = "docs"
        /\ Contains(probe.url, "techcrunch") => probe.category = "news"
        /\ (~Matches(AcademicDomains) /\ ~Matches(DocsPatterns)
            /\ ~Matches(NewsDomains)) => probe.category = "other"

\* C19 as amended: academic for every url that contains "arxiv.org"; docs
\* for every url that contains "github.com" and no academic entry; news
\* for every url that contains "techcrunch" and neither an academic nor a
\* docs entry; other for a url that matches no rule entry.
C19_KeywordDecidesUnlessEarlierRule ==
    Classified =>
        /\ Contains(probe.url, "arxiv.org") => probe.category = "academic"
        /\ (Contains(probe.url, "github.com") /\ ~Matches(AcademicDomains))
               => probe.category = "docs"
        /\ (Contains(probe.url, "techcrunch") /\ ~Matches(AcademicDomains)
            /\ ~Matches(DocsPatterns)) => probe.category = "news"
        /\ (~Matches(AcademicDomains) /\ ~Matches(DocsPatterns)
            /\ ~Matches(NewsDomains)) => probe.category = "other"

C19_Witness ==
    /\ Classified
    /\ Contains(probe.url, "github.com") /\ Contains(probe.url, "techcrunch")
    /\ probe.category = "docs"

\* C20: for every string _categorize_url returns one of academic, docs,
\* news, other: academic exactly when an academic entry is a substring of
\* the lower-cased url, docs exactly when a docs entry is and no academic
\* one, news exactly when a news entry is and no academic or docs one,
\* and other exactly when no entry is.
C20_FirstMatchingRuleSet ==
    Classified =>
        /\ probe.category \in {"academic", "docs", "news", "other"}
        /\ probe.category = "academic" <=> Matches(AcademicDomains)
        /\ probe.category = "docs" <=>
               (~Matches(AcademicDomains) /\ Matches(DocsPatterns))
        /\ probe.category = "news" <=>
               (~Matches(AcademicDomains) /\ ~Matches(DocsPatterns)
                /\ Matches(NewsDomains))
        /\ probe.category = "other" <=>
               (~Matches(AcademicDomains) /\ ~Matches(DocsPatterns)
                /\ ~Matches(NewsDomains))

C20_Witness ==
    /\ Classified
    /\ probe.url = "HTTP://TechCrunch/ARXIV.ORG"
    /\ probe.category = "academic"

Formatted == probe.kind = "format" /\ probe.done

\* The two lines the formatter writes for a citation shown under number n.
CitationEntry(n, citation) ==
    "- [" \o ToString(n) \o "] " \o citation.title \o "\n  URL: " \o citation.url

\* C21: in the formatted output a citation is shown under its 1-based
\* position in the Result's whole citation sequence and under no other
\* number, whatever the categories of the citations around it.
C21_GlobalCitationNumbers ==
    Formatted =>
        LET cs == probe.result.citations IN
        \A i \in 1..Len(cs) :
            cs[i].url # "" =>
                \A n \in 0..(Len(cs) + 1) :
                    Contains(probe.output, CitationEntry(n, cs[i])) <=> n = i

\* An academic citation in second place after a news one: it is listed
\* first, under number 2.
C21_Witness ==
    /\ Formatted
    /\ Len(probe.result.citations) = 3
    /\ probe.result.citations[1].category = "news"
    /\ probe.result.citations[2].category = "academic"
    /\ probe.result.citations[3].category = "academic"
    /\ Contains(probe.output,
                "### Academic Sources\n"
                \o CitationEntry(2, probe.result.citations[2]) \o "\n"
                \o CitationEntry(3, probe.result.citations[3]))

\* The first position at which sub occurs in s, 0 when it does not.
IndexOf(s, sub) ==
    IF Contains(s, sub)
    THEN CHOOSE k \in 1..Len(s) :
             /\ k + Len(sub) - 1 <= Len(s)
             /\ SubSeq(s, k, k + Len(sub) - 1) = sub
             /\ \A j \in 1..(k - 1) :
                    SubSeq(s, j, j + Len(sub) - 1) # sub
    ELSE 0

Rank(category) ==
    CHOOSE k \in 1..Len(CategoryOrder) : CategoryOrder[k] = category

\* The citations of a Result that the formatter writes out.
Rendered(result) ==
    {i \in 1..Len(result.citations) :
         Contains(probe.output, CitationEntry(i, result.citations[i]))}

\* C22: the formatter writes the groups in the order academic, news, docs,
\* other, writes a group's subheading only when the group shows at least one
\* citation, and keeps the citations of a group in their original order.
C22_GroupsInOrderHeadedWhenShown ==
    Formatted =>
        LET cs == probe.result.citations
            At(i) == IndexOf(probe.output, CitationEntry(i, cs[i]))
            Heading(c) == IndexOf(probe.output, "\n" \o CategoryName(c))
        IN /\ \A c \in {"academic", "news", "docs", "other"} :
                  Heading(c) > 0 =>
                      \E i \in Rendered(probe.result) :
                          cs[i].category = c /\ Heading(c) < At(i)
           /\ \A i, j \in Rendered(probe.result) :
                  (\/ Rank(cs[i].category) < Rank(cs[j].category)
                   \/ cs[i].category = cs[j].category /\ i < j)
                  => At(i) < At(j)
           /\ \A i \in Rendered(probe.result) :
                  \A c \in {"academic", "news", "docs", "other"} :
                      Heading(c) > 0 /\ Rank(cs[i].category) < Rank(c)
                      => At(i) < Heading(c)

\* C23: a Result with no citations and no usage is formatted as exactly its
\* content; the References section is written exactly when the citation list
\* is non-empty and the token line exactly when usage is present.
C23_SectionsOnlyWhenPresent ==
    Formatted =>
        LET result == probe.result IN
        /\ (result.citations = <<>> /\ ~result.usage.present
            => probe.output = result.content)
        /\ (Contains(probe.output, "## References") <=> result.citations # <<>>)
        /\ (Contains(probe.output, "Tokens: ") <=> result.usage.present)

C23_Witness ==
    /\ Formatted
    /\ probe.result.citations = <<>>
    /\ ~probe.result.usage.present
    /\ probe.result.content = "X"
    /\ probe.output = "X"

\* C24: when a deep-research response carries a top-level error, the Result
\* has the error's code and message, and its content and citations are those
\* of the same response without the error.
C24_ErrorKeepsContentAndCitations ==
    (probe.kind = "research" /\ probe.done /\ Truthy(probe.response.error)) =>
        LET clean == _parse_response([probe.response EXCEPT !.error = PyNone])
        IN /\ probe.parsed.exc = clean.exc
           /\ probe.parsed.exc = <<>> =>
                  /\ probe.parsed.result.error
                         = PyObj([code |-> probe.response.error.o.code,
                                  message |-> probe.response.error.o.message])
                  /\ clean.result.error = Absent
                  /\ probe.parsed.result.content = clean.result.content
                  /\ Citations = clean.result.citations
                  /\ Len(Citations) = Len(FirstOccurrences(WalkCandidates))

\* A failed response whose output has a message with text and a citation.
C24_Witness ==
    /\ ResultBuilt("research")
    /\ Truthy(probe.response.error)
    /\ probe.parsed.result.error.o.message = "rate limit exceeded"
    /\ probe.parsed.result.content = "Text"
    /\ Len(Citations) = 1
    /\ Citations[1].url = "https://arxiv.org/a"

ResearchReported == probe.kind = "except" /\ probe.done /\ probe.attempt = "research"

Raised(i) == IF i = 1 THEN probe.first ELSE probe.second

\* What C25 says of a rate-limit and of a timeout failure.
RateLimitAndTimeoutReported(i) ==
    /\ ~probe.reports[i].success
    /\ IsInstance(Raised(i), "RateLimitError") =>
           /\ StartsWith(ReportedMessage(i), "Rate limited")
           /\ ~StartsWith(ReportedMessage(i), "API error")
    /\ IsInstance(Raised(i), "APITimeoutError") =>
           /\ Contains(ReportedMessage(i),
                       "timed out after " \o PyStrOf(self.timeout) \o "s")
           /\ ~StartsWith(ReportedMessage(i), "Connection error")

StatusErrorReported(i) ==
    /\ StartsWith(ReportedMessage(i), "API error")
    /\ Contains(ReportedMessage(i), ToString(Raised(i).status_code))

C26_ClosedBeforeForgotten ==
    [][(self._client # 0 /\ self'._client = 0)
           => clients[self._client].close_calls > 0]_vars

\* C27: no upstream call of a request is started through a client on which
\* close() has already been called.
C27_NoCallThroughClosedClient ==
    \A t \in Tasks :
        IsExecute(t) =>
            \A i \in 1..Len(tasks[t].calls) : ~tasks[t].calls[i].closed_at_start

\* The research call of request t has returned a response.
ResearchAnswered(t) ==
    /\ IsExecute(t) /\ tasks[t].calls # <<>>
    /\ tasks[t].calls[1].api = "research" /\ tasks[t].calls[1].done
    /\ tasks[t].calls[1].outcome.exc = <<>>

\* C28: when the research call returns a response, with or without a
\* top-level error or a failed status, execute returns success=true and has
\* made no chat call: only a failure raised by the research call leads to
\* the fallback.
C28_ResponseNeverFallsBack ==
    \A t \in Tasks :
        ResearchAnswered(t) =>
            /\ Returned(t)
            /\ tasks[t].result[1].success
            /\ ChatCalls(t) = {}

\* C29: every outcome execute returns is consistent: success is false
\* exactly when it carries an error with a non-empty message, and a
\* successful outcome carries no error, in every mode and after a fallback.
C29_OutcomeConsistent ==
    \A t \in Tasks :
        (IsExecute(t) /\ Returned(t)) =>
            LET result == tasks[t].result[1]
                has_error == /\ Truthy(result.error)
                             /\ result.error.o.message # ""
            IN /\ ~result.success <=> has_error
               /\ result.success => result.error = PyNone

\* A request that fell back and succeeded beside one that failed in
\* research mode.
C29_Witness ==
    \E t, u \in Tasks :
        /\ AutoMode(t) /\ Returned(t) /\ ChatCalls(t) # {}
        /\ tasks[t].result[1].success /\ tasks[t].result[1].error = PyNone
        /\ IsExecute(u) /\ Returned(u) /\ tasks[u].mode = "research"
        /\ ~tasks[u].result[1].success
        /\ StartsWith(tasks[u].result[1].error.o.message, "Rate limited")

\* C30: a request with a query made on a tool that has no API key never
\* raises and never reaches the network: no client is created, no upstream
\* call is made, and execute returns a failed outcome whose message starts
\* with "Chat failed:" in chat mode and with "Research failed:" in research
\* and auto mode, where no chat fallback follows.
C30_NoKeyFailsWithoutNetwork ==
    self._api_key.k = "none" =>
        /\ clients = <<>>
        /\ \A t \in Tasks :
               (IsExecute(t) /\ Finished(t) /\ ~NoQuery(tasks[t].input)) =>
                   /\ Returned(t)
                   /\ tasks[t].calls = <<>>
                   /\ ~tasks[t].result[1].success
                   /\ StartsWith(tasks[t].result[1].error.o.message,
                                 IF tasks[t].mode = "chat" THEN "Chat failed:"
                                 ELSE "Research failed:")

====
